---- MODULE Spec2Model ----
(***************************************************************************)
(* The two units of logic of the documentation site:                       *)
(*   - src/components/python.tsx: parseDocstring and its caller PyFunction *)
(*   - src/app/(home)/errors/page.tsx: the reduce that groups the error    *)
(*     pages by category, and the Object.entries that renders the groups.  *)
(* Strings are tuples of one-character strings, so that splitting,         *)
(* trimming and regular-expression tests are computed character by         *)
(* character.                                                              *)
(***************************************************************************)
EXTENDS Integers, Sequences, FiniteSets, TLC

VARIABLES docString, pc, lines, idx, currentSection, sections, doc, rendered,
          posts, gpc, gi, category, acc, entries

docVars == <<docString, pc, lines, idx, currentSection, sections, doc, rendered>>
groupVars == <<posts, gpc, gi, category, acc, entries>>
vars == <<docString, pc, lines, idx, currentSection, sections, doc, rendered,
          posts, gpc, gi, category, acc, entries>>

(* ---------------------------- bounds ----------------------------------- *)
MaxLines == 4
MaxArgLen == 5
MaxPages == 3

(* ------------------------ JavaScript values ---------------------------- *)
\* undefined: a one-element tuple whose element is not a character
Undefined == <<"undefined">>
\* null, as assigned to doc by PyFunction
Null == [isNull |-> TRUE]

NL == "\n"
WhiteSpace == {" ", "\t", "\r", NL}

LowerLetters == <<"a","b","c","d","e","f","g","h","i","j","k","l","m",
                  "n","o","p","q","r","s","t","u","v","w","x","y","z">>
UpperLetters == <<"A","B","C","D","E","F","G","H","I","J","K","L","M",
                  "N","O","P","Q","R","S","T","U","V","W","X","Y","Z">>

\* the case folding of a regular expression with the i flag (to upper case)
Canonicalize(c) ==
  IF \E k \in 1..26 : LowerLetters[k] = c
  THEN UpperLetters[CHOOSE k \in 1..26 : LowerLetters[k] = c]
  ELSE c

RECURSIVE TrimStart(_)
TrimStart(s) ==
  IF s = <<>> THEN <<>>
  ELSE IF Head(s) \in WhiteSpace THEN TrimStart(Tail(s)) ELSE s

RECURSIVE TrimEnd(_)
TrimEnd(s) ==
  IF s = <<>> THEN <<>>
  ELSE IF s[Len(s)] \in WhiteSpace THEN TrimEnd(SubSeq(s, 1, Len(s) - 1)) ELSE s

\* line.replace(/^\s+|\s+$/g, "") and String.prototype.trim
Trim(s) == TrimEnd(TrimStart(s))

\* String.prototype.split with a one-character separator
RECURSIVE Split(_, _)
Split(s, sep) ==
  IF \A k \in 1..Len(s) : s[k] # sep THEN <<s>>
  ELSE LET p == CHOOSE k \in 1..Len(s) : s[k] = sep /\ \A j \in 1..(k - 1) : s[j] # sep
       IN <<SubSeq(s, 1, p - 1)>> \o Split(SubSeq(s, p + 1, Len(s)), sep)

MapTrim(ss) == [k \in 1..Len(ss) |-> Trim(ss[k])]

\* the header test with the i flag left out
TestHeaderCaseSensitive(stem, line) ==
  LET n == Len(stem)
      stemMatches == /\ Len(line) >= n
                     /\ \A k \in 1..n : line[k] = stem[k]
  IN \/ stemMatches /\ Len(line) = n + 1 /\ line[n + 1] = ":"
     \/ stemMatches /\ Len(line) = n + 2 /\ line[n + 1] = "S"
                    /\ line[n + 2] = ":"

\* /^STEMs?:$/i.test(line), STEM given in upper case
TestHeader(stem, line) ==
  LET n == Len(stem)
      stemMatches == /\ Len(line) >= n
                     /\ \A k \in 1..n : Canonicalize(line[k]) = stem[k]
  IN \/ stemMatches /\ Len(line) = n + 1 /\ line[n + 1] = ":"
     \/ stemMatches /\ Len(line) = n + 2 /\ Canonicalize(line[n + 1]) = "S"
                    /\ line[n + 2] = ":"

ArgRegex == <<"A","R","G">>
ReturnRegex == <<"R","E","T","U","R","N">>
RaiseRegex == <<"R","A","I","S","E">>

EmptySections == [description |-> <<>>, arguments |-> <<>>, returns |-> <<>>, raises |-> <<>>]

\* lines 17-28: the section a header line switches to, "none" for other lines
HeaderSection(line) ==
  IF TestHeader(ArgRegex, line) THEN "arguments"
  ELSE IF TestHeader(ReturnRegex, line) THEN "returns"
  ELSE IF TestHeader(RaiseRegex, line) THEN "raises"
  ELSE "none"

\* the raises branch accumulating into returns
AddLineRaisesIntoReturns(cur, secs, line) ==
  IF cur = "arguments"
  THEN IF line # <<>>
       THEN [secs EXCEPT !.arguments = Append(@, line)]
       ELSE secs
  ELSE IF cur = "description"
  THEN [secs EXCEPT !.description = @ \o (IF line # <<>> THEN line \o <<NL>> ELSE <<NL>>)]
  ELSE [secs EXCEPT !.returns = @ \o (IF line # <<>> THEN line \o <<NL>> ELSE <<NL>>)]

\* arguments.unshift in place of arguments.push
AddLineUnshift(cur, secs, line) ==
  IF cur = "arguments"
  THEN IF line # <<>>
       THEN [secs EXCEPT !.arguments = <<line>> \o @]
       ELSE secs
  ELSE [secs EXCEPT ![cur] = @ \o (IF line # <<>> THEN line \o <<NL>> ELSE <<NL>>)]

\* the arguments branch without its test for a blank line
AddLinePushBlank(cur, secs, line) ==
  IF cur = "arguments"
  THEN [secs EXCEPT !.arguments = Append(@, line)]
  ELSE [secs EXCEPT ![cur] = @ \o (IF line # <<>> THEN line \o <<NL>> ELSE <<NL>>)]

\* lines 30-38: a line that is no header is accumulated in the current section
AddLine(cur, secs, line) ==
  IF cur = "arguments"
  THEN IF line # <<>>
       THEN [secs EXCEPT !.arguments = Append(@, line)]
       ELSE secs
  ELSE IF cur = "description"
  THEN [secs EXCEPT !.description = @ \o (IF line # <<>> THEN line \o <<NL>> ELSE <<NL>>)]
  ELSE IF cur = "returns"
  THEN [secs EXCEPT !.returns = @ \o (IF line # <<>> THEN line \o <<NL>> ELSE <<NL>>)]
  ELSE IF cur = "raises"
  THEN [secs EXCEPT !.raises = @ \o (IF line # <<>> THEN line \o <<NL>> ELSE <<NL>>)]
  ELSE secs

\* a header that starts its section afresh
ScanStepResetOnHeader(cur, secs, line) ==
  LET h == HeaderSection(line)
  IN IF h # "none"
     THEN [currentSection |-> h, sections |-> [secs EXCEPT ![h] = <<>>]]
     ELSE [currentSection |-> cur, sections |-> AddLine(cur, secs, line)]

\* one iteration of the for loop of parseDocstring
ScanStep(cur, secs, line) ==
  LET h == HeaderSection(line)
  IN IF h # "none"
     THEN [currentSection |-> h, sections |-> secs]
     ELSE [currentSection |-> cur, sections |-> AddLine(cur, secs, line)]

\* the description left untrimmed
TrimSectionsNoDescription(secs) ==
  [secs EXCEPT !.returns = TrimEnd(@), !.raises = TrimEnd(@)]

\* the three trimEnd calls before the return of parseDocstring
TrimSections(secs) ==
  [secs EXCEPT !.description = TrimEnd(@), !.returns = TrimEnd(@), !.raises = TrimEnd(@)]

\* the for loop of parseDocstring over the remaining lines
RECURSIVE ScanAll(_, _, _)
ScanAll(cur, secs, ls) ==
  IF ls = <<>> THEN secs
  ELSE LET r == ScanStep(cur, secs, Head(ls))
       IN ScanAll(r.currentSection, r.sections, Tail(ls))

\* parseDocstring as one function of its argument
parseDocstring(docstring) ==
  TrimSections(ScanAll("description", EmptySections, MapTrim(Split(docstring, NL))))

\* a guard that only tests for a missing prop
TruthyNotUndefined(d) == d # Undefined

\* the truthiness of the docString prop
Truthy(d) == d # Undefined /\ d # <<>>

\* const [name, description] = s.split(":").map((s) => s.trim())
SplitEntry(s) ==
  LET parts == MapTrim(Split(s, ":"))
  IN [name |-> parts[1],
      description |-> IF Len(parts) >= 2 THEN parts[2] ELSE Undefined]

(* --------------------------- PyFunction -------------------------------- *)
GroupIdle ==
  /\ posts = <<>> /\ gpc = "idle" /\ gi = 0 /\ category = Undefined
  /\ acc = [keys |-> <<>>, vals |-> <<>>] /\ entries = <<>>

\* the raw lines docstrings are made of: blank, content with and without
\* surrounding whitespace, headers with and without the s in upper, lower and
\* mixed case, and a line that holds a header and more
RawLines ==
  { <<>>,
    <<" ","x","\t">>,
    <<"y">>,
    <<"A","r","g","s",":">>,
    <<" ","a","r","g",":"," ">>,
    <<"R","E","T","U","R","N","S",":">>,
    <<"R","a","i","s","e",":">>,
    <<"A","r","g","s",":","x">> }

RECURSIVE Join(_)
Join(ls) ==
  IF Len(ls) = 1 THEN ls[1] ELSE ls[1] \o <<NL>> \o Join(Tail(ls))

RawLineSeqs == UNION { [1..n -> RawLines] : n \in 1..MaxLines }

DocIdle ==
  /\ lines = <<>> /\ idx = 0 /\ currentSection = "description"
  /\ sections = EmptySections /\ doc = Null /\ rendered = Null

Init ==
  /\ docString \in {Undefined} \cup { Join(ls) : ls \in RawLineSeqs }
  /\ pc = "PyFunction"
  /\ DocIdle
  /\ GroupIdle

\* line 64 and lines 6-15: the guard of PyFunction, then the split of the
\* docstring into trimmed lines and the initial section
PyFunction ==
  /\ pc = "PyFunction"
  /\ IF Truthy(docString)
     THEN /\ lines' = MapTrim(Split(docString, NL))
          /\ sections' = EmptySections
          /\ currentSection' = "description"
          /\ idx' = 1
          /\ pc' = "scan"
          /\ doc' = doc
     ELSE /\ doc' = Null
          /\ pc' = "render"
          /\ UNCHANGED <<lines, sections, currentSection, idx>>
  /\ UNCHANGED <<docString, rendered>>
  /\ UNCHANGED groupVars

\* lines 16-39: one iteration of the loop over the lines
ScanLine ==
  /\ pc = "scan"
  /\ idx <= Len(lines)
  /\ LET r == ScanStep(currentSection, sections, lines[idx])
     IN /\ currentSection' = r.currentSection
        /\ sections' = r.sections
  /\ idx' = idx + 1
  /\ UNCHANGED <<docString, pc, lines, doc, rendered>>
  /\ UNCHANGED groupVars

\* lines 41-45: the loop is over, the text sections are right-trimmed and
\* the record is returned to PyFunction
ReturnSections ==
  /\ pc = "scan"
  /\ idx > Len(lines)
  /\ sections' = TrimSections(sections)
  /\ doc' = sections'
  /\ pc' = "render"
  /\ UNCHANGED <<docString, lines, idx, currentSection, rendered>>
  /\ UNCHANGED groupVars

\* lines 66-131: what PyFunction displays
Render ==
  /\ pc = "render"
  /\ rendered' =
       IF doc = Null
       THEN [fallback |-> TRUE]
       ELSE [fallback |-> FALSE,
             description |-> Split(doc.description, NL),
             arguments |-> [k \in 1..Len(doc.arguments) |-> SplitEntry(doc.arguments[k])],
             returns |-> doc.returns,
             raises |-> IF doc.raises # <<>>
                        THEN LET rs == Split(doc.raises, NL)
                             IN [k \in 1..Len(rs) |-> SplitEntry(rs[k])]
                        ELSE <<>>]
  /\ pc' = "done"
  /\ UNCHANGED <<docString, lines, idx, currentSection, sections, doc>>
  /\ UNCHANGED groupVars

Next == PyFunction \/ ScanLine \/ ReturnSections \/ Render

Spec == Init /\ [][Next]_vars

(* ------------- PyFunction on a docstring of one argument --------------- *)
ArgChars == {"k", ":", " "}
ArgTexts == UNION { [1..n -> ArgChars] : n \in 1..MaxArgLen }

InitArgs ==
  /\ docString \in { <<"A","r","g","s",":",NL>> \o a : a \in ArgTexts }
  /\ pc = "PyFunction"
  /\ DocIdle
  /\ GroupIdle

SpecArgs == InitArgs /\ [][Next]_vars

(* --------------------------- ErrorsPage -------------------------------- *)
Uncategorized == <<"u","n","c","a","t","e","g","o","r","i","z","e","d">>
Constructor == <<"c","o","n","s","t","r","u","c","t","o","r">>

\* properties every object literal inherits from Object.prototype
ObjectPrototypeKeys ==
  { Constructor,
    <<"_","_","p","r","o","t","o","_","_">>,
    <<"t","o","S","t","r","i","n","g">>,
    <<"v","a","l","u","e","O","f">> }

Digits == <<"0","1","2","3","4","5","6","7","8","9">>
IsDigit(c) == \E d \in 1..10 : Digits[d] = c
DigitValue(c) == (CHOOSE d \in 1..10 : Digits[d] = c) - 1

\* the order of two canonical numeric strings by their values: the shorter
\* is the smaller, and of two of one length the first differing digit decides
NumericLess(a, b) ==
  \/ Len(a) < Len(b)
  \/ /\ Len(a) = Len(b)
     /\ \E j \in 1..Len(a) :
           /\ DigitValue(a[j]) < DigitValue(b[j])
           /\ \A h \in 1..(j - 1) : a[h] = b[h]

\* 2^32 - 1, the first integer that is no array index
FirstNonIndex == <<"4","2","9","4","9","6","7","2","9","5">>

\* an integer-like property key (array index): a canonical numeric string
\* below 2^32 - 1
IsArrayIndex(k) ==
  /\ Len(k) >= 1
  /\ \A j \in 1..Len(k) : IsDigit(k[j])
  /\ Len(k) > 1 => k[1] # "0"
  /\ NumericLess(k, FirstNonIndex)

HasOwn(o, k) == \E j \in 1..Len(o.keys) : o.keys[j] = k

\* where the lookup acc[k] finds its value: in an own property (an array of
\* pages), in Object.prototype (truthy, and no array), or nowhere (undefined)
Lookup(o, k) ==
  IF HasOwn(o, k) THEN "own"
  ELSE IF k \in ObjectPrototypeKeys THEN "inherited"
  ELSE "undefined"

\* the array that the own property k holds
Get(o, k) == o.vals[CHOOSE j \in 1..Len(o.keys) : o.keys[j] = k]

\* acc[k] = v for an ordinary key
Put(o, k, v) ==
  IF \E j \in 1..Len(o.keys) : o.keys[j] = k
  THEN [o EXCEPT !.vals[CHOOSE j \in 1..Len(o.keys) : o.keys[j] = k] = v]
  ELSE [keys |-> Append(o.keys, k), vals |-> Append(o.vals, v)]

RECURSIVE SortByValue(_)
SortByValue(ks) ==
  IF ks = {} THEN <<>>
  ELSE LET m == CHOOSE k \in ks : \A o \in ks : o = k \/ NumericLess(k, o)
       IN <<m>> \o SortByValue(ks \ {m})

\* the order in which Object.entries lists the own keys: the integer-like
\* keys in ascending numeric order, then the other keys in creation order
OwnKeys(o) ==
  LET IsName(k) == ~IsArrayIndex(k)
  IN SortByValue({ o.keys[j] : j \in { n \in 1..Len(o.keys) : IsArrayIndex(o.keys[n]) } })
       \o SelectSeq(o.keys, IsName)

\* Object.entries(postsByCategory)
ObjectEntries(o) ==
  LET ks == OwnKeys(o)
  IN [j \in 1..Len(ks) |-> [category |-> ks[j], posts |-> Get(o, ks[j])]]

\* the category taken from the last segment
CategoryOfLastSegment(post) ==
  LET slug == post.slugs
  IN IF slug = <<>> THEN Uncategorized ELSE slug[Len(slug)]

\* lines 10-11: slug[0] || "uncategorized"
CategoryOf(post) ==
  LET slug == post.slugs
      first == IF Len(slug) >= 1 THEN slug[1] ELSE Undefined
  IN IF first = Undefined \/ first = <<>> THEN Uncategorized ELSE first

\* the slugs of a page: the segments of its file path, none of them empty
SlugChoices ==
  { <<>>,
    << <<"a">> >>,
    << <<"a">>, <<"b">> >>,
    << <<"b">> >>,
    << <<"7">> >>,
    << <<"1","0">> >>,
    << Constructor >>,
    << Uncategorized >> }

PageSeqs ==
  UNION { { [k \in 1..n |-> [url |-> k, slugs |-> f[k]]] : f \in [1..n -> SlugChoices] }
          : n \in 0..MaxPages }

InitGroup ==
  /\ posts \in PageSeqs
  /\ gpc = "reduce"
  /\ gi = 0
  /\ category = Undefined
  /\ acc = [keys |-> <<>>, vals |-> <<>>]
  /\ entries = <<>>
  /\ docString = Undefined /\ pc = "idle" /\ DocIdle

\* lines 9-15: the reduce callback on the next page
Reduce ==
  /\ gpc = "reduce"
  /\ gi < Len(posts)
  /\ LET post == posts[gi + 1]
         cat == CategoryOf(post)
         acc1 == IF Lookup(acc, cat) = "undefined" THEN Put(acc, cat, <<>>) ELSE acc
     IN /\ category' = cat
        /\ IF Lookup(acc1, cat) = "inherited"
           THEN \* acc[category].push is not a function: TypeError
                /\ gpc' = "threw"
                /\ acc' = acc1
                /\ gi' = gi
           ELSE /\ acc' = Put(acc1, cat, Append(Get(acc1, cat), post))
                /\ gi' = gi + 1
                /\ gpc' = gpc
  /\ UNCHANGED <<posts, entries>>
  /\ UNCHANGED docVars

\* lines 8-17: reduce returns the accumulator as postsByCategory
ReduceReturn ==
  /\ gpc = "reduce"
  /\ gi = Len(posts)
  /\ gpc' = "render"
  /\ UNCHANGED <<posts, gi, category, acc, entries>>
  /\ UNCHANGED docVars

\* line 28: the categories are listed with Object.entries
RenderCategories ==
  /\ gpc = "render"
  /\ entries' = ObjectEntries(acc)
  /\ gpc' = "done"
  /\ UNCHANGED <<posts, gi, category, acc>>
  /\ UNCHANGED docVars

NextGroup == Reduce \/ ReduceReturn \/ RenderCategories

SpecGroup == InitGroup /\ [][NextGroup]_vars

(* ======================= properties of PyFunction ====================== *)
ToLower(c) ==
  IF \E k \in 1..26 : UpperLetters[k] = c
  THEN LowerLetters[CHOOSE k \in 1..26 : UpperLetters[k] = c]
  ELSE c

LowerCase(s) == [k \in 1..Len(s) |-> ToLower(s[k])]

ArgSpellings == { <<"a","r","g","s",":">>, <<"a","r","g",":">> }
ReturnSpellings == { <<"r","e","t","u","r","n","s",":">>, <<"r","e","t","u","r","n",":">> }
RaiseSpellings == { <<"r","a","i","s","e","s",":">>, <<"r","a","i","s","e",":">> }

\* the section named by a trimmed line that is a header, "none" otherwise
HeaderKind(line) ==
  IF LowerCase(line) \in ArgSpellings THEN "arguments"
  ELSE IF LowerCase(line) \in ReturnSpellings THEN "returns"
  ELSE IF LowerCase(line) \in RaiseSpellings THEN "raises"
  ELSE "none"

SourceLines == Split(docString, NL)
SourceLine(k) == Trim(SourceLines[k])
TextSections == {"description", "returns", "raises"}
SectionNames == TextSections \cup {"arguments"}

\* the loop is about to scan line idx
Scanning == pc = "scan" /\ idx <= Len(lines)
\* parseDocstring has returned a record
Parsed == pc \in {"render", "done"} /\ doc # Null

\* C1: the trimmed lines are scanned in input order, starting in
\* description; a header line sets the current section and is added to no
\* section; any other line is added to the current section and to no other.
C1_LineGoesToCurrentSection ==
  [][Scanning =>
       LET line == SourceLine(idx)
           kind == HeaderKind(line)
       IN /\ Len(lines) = Len(SourceLines)
          /\ lines[idx] = line
          /\ idx' = idx + 1
          /\ idx = 1 => currentSection = "description"
          /\ kind # "none" => currentSection' = kind /\ sections' = sections
          /\ kind = "none" =>
               /\ currentSection' = currentSection
               /\ \A s \in SectionNames \ {currentSection} : sections'[s] = sections[s]
               /\ currentSection \in TextSections =>
                    sections'[currentSection] = sections[currentSection] \o line \o <<NL>>
               /\ currentSection = "arguments" /\ line # <<>> =>
                    sections'.arguments = Append(sections.arguments, line)]_vars

C1_Witness ==
  /\ pc = "scan" /\ idx > Len(lines)
  /\ sections.description # <<>>
  /\ Len(sections.arguments) = 1
  /\ currentSection = "returns"

NoHeaderLine == \A k \in 1..Len(SourceLines) : HeaderKind(SourceLine(k)) = "none"

RECURSIVE JoinNL(_)
JoinNL(ls) ==
  IF ls = <<>> THEN <<>>
  ELSE IF Len(ls) = 1 THEN ls[1]
  ELSE ls[1] \o <<NL>> \o JoinNL(Tail(ls))

\* C2 as stated: without a header line the description is the whole
\* docstring trimmed at both ends.
C2_DescriptionIsTrimmedInput ==
  Parsed /\ NoHeaderLine =>
    doc.arguments = <<>> /\ doc.description = Trim(docString)

\* C2: without a header line, arguments is empty and description is the
\* docstring with every line trimmed at both ends and the whitespace at the
\* end of the whole removed; blank lines at the start are kept.
C2_DescriptionIsTrimmedLines ==
  /\ parseDocstring(<<>>) = EmptySections
  /\ Parsed /\ NoHeaderLine =>
       /\ doc.arguments = <<>>
       /\ doc.description =
            TrimEnd(JoinNL([k \in 1..Len(SourceLines) |-> SourceLine(k)]))

C2_Witness ==
  /\ Parsed /\ NoHeaderLine
  /\ Len(SourceLines) >= 3
  /\ SourceLine(1) = <<>>
  /\ SourceLines[2] # SourceLine(2)
  /\ doc.description # Trim(docString)

IsArgsHeader(k) == HeaderKind(SourceLine(k)) = "arguments"

\* the index of the first header line after line k, or one past the last line
RunEnd(k) ==
  LET n == Len(SourceLines)
      hs == { j \in (k + 1)..n : HeaderKind(SourceLine(j)) # "none" }
  IN IF hs = {} THEN n + 1 ELSE CHOOSE j \in hs : \A h \in hs : j <= h

\* the non-blank lines after header k and before the next header, trimmed
ArgRun(k) ==
  LET IsNonBlank(l) == l # <<>>
  IN SelectSeq([j \in 1..(RunEnd(k) - 1 - k) |-> SourceLine(k + j)], IsNonBlank)

\* C3 as stated: arguments is the run of non-blank lines after an Args:
\* header, whatever else the docstring contains.
C3_ArgumentsAreRunOfAnyHeader ==
  Parsed => \A k \in 1..Len(SourceLines) :
              IsArgsHeader(k) => doc.arguments = ArgRun(k)

\* C3: when the docstring has exactly one Args:/Arg: header line, followed by
\* N non-blank lines before the next header or the end, arguments is these N
\* lines, trimmed, in source order.
C3_ArgumentsAreRunOfOnlyHeader ==
  Parsed => \A k \in 1..Len(SourceLines) :
              (IsArgsHeader(k) /\ \A j \in 1..Len(SourceLines) : IsArgsHeader(j) => j = k)
                => doc.arguments = ArgRun(k)

C3_Witness ==
  /\ Parsed
  /\ Cardinality({ k \in 1..Len(SourceLines) : IsArgsHeader(k) }) = 1
  /\ Len(doc.arguments) = 2
  /\ doc.arguments[1] # doc.arguments[2]
  /\ \E k \in 1..Len(SourceLines) : SourceLines[k] # SourceLine(k) /\ doc.arguments[1] = SourceLine(k)

\* C4: an empty or missing docstring gives a null result and the fallback
\* text; a record is produced, and displayed, only for a non-empty docstring.
C4_EmptyDocstringIsNull ==
  /\ pc \in {"render", "done"} =>
       /\ docString \in {<<>>, Undefined} <=> doc = Null
       /\ doc # Null => DOMAIN doc = DOMAIN EmptySections
  /\ pc = "done" => (rendered.fallback <=> docString \in {<<>>, Undefined})

C4_Witness ==
  pc = "done" /\ docString = <<>> /\ doc = Null /\ rendered.fallback

\* the docstring with every header line replaced by its lower-case spelling
LowerHeaders ==
  JoinNL([k \in 1..Len(SourceLines) |->
            IF HeaderKind(SourceLine(k)) # "none"
            THEN LowerCase(SourceLines[k])
            ELSE SourceLines[k]])

\* C5: a line switches the section exactly when, trimmed, it is one of the
\* six header spellings in any letter case; the case of a header does not
\* change the result; a line with more than a header is content.
C5_HeaderIsWholeLineAnyCase ==
  /\ [][Scanning =>
          LET line == Trim(SourceLines[idx])
          IN IF LowerCase(line) \in ArgSpellings \cup ReturnSpellings \cup RaiseSpellings
             THEN /\ sections' = sections
                  /\ LowerCase(line) \in ArgSpellings => currentSection' = "arguments"
                  /\ LowerCase(line) \in ReturnSpellings => currentSection' = "returns"
                  /\ LowerCase(line) \in RaiseSpellings => currentSection' = "raises"
             ELSE /\ currentSection' = currentSection
                  /\ line # <<>> => sections' # sections]_vars
  /\ [](Parsed => doc = parseDocstring(LowerHeaders))

C5_Witness ==
  /\ Parsed
  /\ LowerHeaders # docString
  /\ \E k \in 1..Len(SourceLines) : SourceLines[k] = <<"A","r","g","s",":","x">>
  /\ doc.arguments = <<>>
  /\ doc.returns # <<>>

\* C6: a blank line adds nothing to arguments, so that no entry is empty; in
\* description, returns and raises it adds a line separator; the final trim
\* removes only whitespace at the end, and the three texts never end in it.
C6_BlankLines ==
  /\ [](\A k \in 1..Len(sections.arguments) : sections.arguments[k] # <<>>)
  /\ [][Scanning /\ SourceLine(idx) = <<>> =>
          /\ currentSection = "arguments" => sections' = sections
          /\ currentSection \in TextSections =>
               sections'[currentSection] = sections[currentSection] \o <<NL>>]_vars
  /\ [][pc = "scan" /\ pc' = "render" =>
          \A s \in TextSections :
             /\ doc'[s] = TrimEnd(sections[s])
             /\ \E n \in 0..Len(sections[s]) :
                  /\ doc'[s] = SubSeq(sections[s], 1, n)
                  /\ \A j \in (n + 1)..Len(sections[s]) : sections[s][j] \in WhiteSpace]_vars
  /\ [](Parsed => \A s \in TextSections :
                    doc[s] = <<>> \/ doc[s][Len(doc[s])] \notin WhiteSpace)

C6_Witness ==
  /\ Parsed
  /\ Len(lines) = 4
  /\ lines[2] = <<>> /\ lines[4] = <<>>
  /\ doc.description = <<"x", NL, NL, "y">>

\* the entry has a colon
HasColon(s) == \E k \in 1..Len(s) : s[k] = ":"
FirstColon(s) == CHOOSE k \in 1..Len(s) : s[k] = ":" /\ \A j \in 1..(k - 1) : s[j] # ":"

\* C7 as stated: an arguments entry is displayed as the text before its first
\* colon and all of the text after it, trimmed, further colons included.
C7_SplitOnFirstColon ==
  pc = "done" /\ doc # Null =>
    \A k \in 1..Len(doc.arguments) :
       LET arg == doc.arguments[k]
       IN HasColon(arg) =>
            /\ rendered.arguments[k].name = Trim(SubSeq(arg, 1, FirstColon(arg) - 1))
            /\ rendered.arguments[k].description =
                 Trim(SubSeq(arg, FirstColon(arg) + 1, Len(arg)))

(* ======================= properties of ErrorsPage ====================== *)
\* the first path segment of the page, or the fallback label
ExpectedCategory(post) ==
  IF Len(post.slugs) >= 1 THEN post.slugs[1] ELSE Uncategorized

\* the reduce is over, by return or by exception
ReduceOver == gpc \in {"render", "done", "threw"}

\* the positions of page p in the group of own key number j
Positions(j, p) == { n \in 1..Len(acc.vals[j]) : acc.vals[j][n] = p }

\* C8 as stated: for every sequence of pages the groups partition it: every
\* page is in the group of its category, once, and in no other; the groups
\* hold nothing else; each group keeps the order of the input.
C8_GroupsPartitionPages ==
  ReduceOver =>
    /\ \A i \in 1..Len(posts) :
         \E j \in 1..Len(acc.keys) :
            /\ acc.keys[j] = ExpectedCategory(posts[i])
            /\ Cardinality(Positions(j, posts[i])) = 1
            /\ \A o \in 1..Len(acc.keys) : o # j => Positions(o, posts[i]) = {}
    /\ \A j \in 1..Len(acc.keys) :
         /\ \A n \in 1..Len(acc.vals[j]) : \E i \in 1..Len(posts) : acc.vals[j][n] = posts[i]
         /\ \A m, n \in 1..Len(acc.vals[j]) : m < n => acc.vals[j][m].url < acc.vals[j][n].url

\* C9: the category of a page is its first path segment when its path has
\* one, and the label uncategorized when its path has none; the page is filed
\* under that key.
C9_CategoryIsFirstSegment ==
  [][gpc = "reduce" /\ gi < Len(posts) =>
       LET post == posts[gi + 1]
       IN /\ Len(post.slugs) >= 1 => category' = post.slugs[1]
          /\ Len(post.slugs) = 0 => category' = Uncategorized
          /\ gi' = gi + 1 =>
               \E j \in 1..Len(acc'.keys) :
                  /\ acc'.keys[j] = category'
                  /\ acc'.vals[j][Len(acc'.vals[j])] = post]_vars

C9_Witness ==
  /\ gpc = "done"
  /\ Len(posts) = 3
  /\ Len(posts[1].slugs) = 2
  /\ posts[2].slugs = <<>>
  /\ posts[3].slugs = << Uncategorized >>
  /\ Len(acc.keys) = 2
  /\ acc.keys[1] = posts[1].slugs[1]
  /\ acc.vals[2] = <<posts[2], posts[3]>>

\* the index in posts of the first page of the category
FirstPage(c) == CHOOSE i \in 1..Len(posts) :
                  /\ ExpectedCategory(posts[i]) = c
                  /\ \A h \in 1..(i - 1) : ExpectedCategory(posts[h]) # c

\* C10 as stated: the categories are rendered in the order of their first
\* pages in the input, whatever the labels are.
C10_EntriesInFirstSeenOrder ==
  gpc = "done" =>
    \A m, n \in 1..Len(entries) :
       m < n <=> FirstPage(entries[m].category) < FirstPage(entries[n].category)

\* the categories of the pages of the input
InputCategories == { ExpectedCategory(posts[i]) : i \in 1..Len(posts) }

\* C11 as stated: the grouping has no error outcome: whatever the first path
\* segments are it completes, and the keys of the mapping are exactly the
\* categories of the input pages; no page gives no key.
C11_GroupingNeverFails ==
  /\ gpc # "threw"
  /\ gpc \in {"render", "done"} =>
       /\ { acc.keys[j] : j \in 1..Len(acc.keys) } = InputCategories
       /\ posts = <<>> => acc.keys = <<>>

(* ================== more properties of parseDocstring ================== *)
IsPrefix(a, b) == Len(a) <= Len(b) /\ a = SubSeq(b, 1, Len(a))

\* the number of lines before the first header line
BeforeFirstHeader ==
  LET hs == { k \in 1..Len(SourceLines) : HeaderKind(SourceLine(k)) # "none" }
  IN IF hs = {} THEN Len(SourceLines)
     ELSE (CHOOSE k \in hs : \A h \in hs : k <= h) - 1

RECURSIVE Terminated(_)
Terminated(ls) ==
  IF ls = <<>> THEN <<>> ELSE Head(ls) \o <<NL>> \o Terminated(Tail(ls))

\* C12: the current section never goes back to description and no line resets
\* a section: each step of the loop only extends what a section holds, after
\* the first header the description is left alone, so that it is made of the
\* lines before the first header, and a header seen again adds to its section.
C12_SectionsOnlyGrow ==
  /\ [][Scanning =>
          /\ currentSection # "description" =>
               /\ currentSection' # "description"
               /\ sections'.description = sections.description
          /\ \A s \in SectionNames : IsPrefix(sections[s], sections'[s])
          /\ HeaderKind(SourceLine(idx)) = "none" /\ SourceLine(idx) # <<>> =>
               sections'[currentSection] # sections[currentSection]]_vars
  /\ [](Parsed =>
          doc.description =
            TrimEnd(Terminated([k \in 1..BeforeFirstHeader |-> SourceLine(k)])))

C12_Witness ==
  /\ Parsed
  /\ Len(lines) = 4
  /\ HeaderKind(lines[1]) = "arguments"
  /\ HeaderKind(lines[3]) = "arguments"
  /\ lines[2] # lines[4]
  /\ doc.arguments = <<lines[2], lines[4]>>
  /\ doc.description = <<>>
====
